---- MODULE Spec2Model ----
(***************************************************************************)
(* Response cache and invalidation protocol of the tracker API:            *)
(* cacheMiddleware / invalidateAllCacheMiddleware (src/middleware/cache.ts) *)
(* in front of the trackerController handlers, as wired by trackerRoutes.   *)
(*                                                                          *)
(* Strings that take part in key building and glob matching are sequences   *)
(* of tokens; the empty sequence is the absent (undefined or "") value,     *)
(* which is what the truthiness tests of the source distinguish.            *)
(***************************************************************************)
EXTENDS Integers, Sequences, FiniteSets, TLC

VARIABLES cache, store, rd, wr, acked, issued, call

vars == <<cache, store, rd, wr, acked, issued, call>>

----------------------------------------------------------------------------
(* Bounds *)

MaxRequests == 3
MaxQueryParams == 3
MaxDay == 3
MaxSessions == 2
MaxVersion == 1
TickSeconds == 150

(* Program constants *)

CACHE_TTL_Millis == 5 * 60 * 1000

CACHE_TTL == 300

MinutesPerDay == 1440

----------------------------------------------------------------------------
(* Request values *)

Absent == <<>>

Users == {<<"a">>, <<"a", "b">>}

TrackerIds == {<<"t">>}

ValidPeriods == {<<"week">>, <<"month">>, <<"year">>}

PeriodInputs == {<<"week">>, <<"month">>, <<"foo">>}

ValidDates == {<<"d1">>, <<"d2">>}

DateInputs == {Absent, <<"d1">>, <<"xx">>}

Readers == {1}

Writers == {1}

----------------------------------------------------------------------------
(* Route table *)

ReadRoutes ==
  { [path |-> "/sessions/:userId/active", kind |-> "active"],
    [path |-> "/users/:userId/daily-totals", kind |-> "range"],
    [path |-> "/users/:userId/daily-totals/:period", kind |-> "period"],
    [path |-> "/users/:userId/total-hours", kind |-> "range"],
    [path |-> "/users/:userId/total-hours/:period", kind |-> "period"],
    [path |-> "/users/:userId/productivity-trend", kind |-> "range"],
    [path |-> "/users/:userId/productivity-trend/:period", kind |-> "period"],
    [path |-> "/users/:userId/today", kind |-> "today"] }

RouteKind(path) == (CHOOSE r \in ReadRoutes : r.path = path).kind

WriteRoutes ==
  { [endpoint |-> "create", method |-> "POST", invalidating |-> TRUE],
    [endpoint |-> "start", method |-> "POST", invalidating |-> TRUE],
    [endpoint |-> "stop", method |-> "POST", invalidating |-> TRUE],
    [endpoint |-> "archive", method |-> "POST", invalidating |-> TRUE],
    [endpoint |-> "unarchive", method |-> "POST", invalidating |-> TRUE],
    [endpoint |-> "delete", method |-> "DELETE", invalidating |-> FALSE] }

WriteRoute(endpoint) == CHOOSE r \in WriteRoutes : r.endpoint = endpoint

----------------------------------------------------------------------------
(* Read requests the model issues *)

ReadRequest(method, path, userId, period, qPeriod, trackerId, startDate, endDate) ==
  [method |-> method, path |-> path, userId |-> userId, period |-> period,
   qPeriod |-> qPeriod, trackerId |-> trackerId, startDate |-> startDate,
   endDate |-> endDate]

(* One route per handler shape is exercised: the three range handlers and  *)
(* the three period handlers are the same code around different service    *)
(* calls.  router.get also routes HEAD requests to the same middleware.     *)
ReadRequests ==
  { ReadRequest("GET", "/users/:userId/daily-totals/:period", <<"a">>, p,
                Absent, Absent, Absent, Absent) : p \in PeriodInputs }
  \cup
  { ReadRequest("GET", "/users/:userId/daily-totals", <<"a">>, Absent, Absent,
                Absent, s, <<"d2">>) : s \in DateInputs }
  \cup
  { ReadRequest("GET", "/users/:userId/today", u, Absent, Absent, Absent,
                Absent, Absent) : u \in Users }
  \cup
  { ReadRequest("GET", "/users/:userId/today", <<"a">>, Absent, <<"week">>, t,
                Absent, Absent) : t \in TrackerIds }
  \cup
  { ReadRequest("HEAD", "/users/:userId/today", <<"a">>, Absent, Absent,
                Absent, Absent, Absent) }

----------------------------------------------------------------------------
(* JSON values.  An object is its defined properties (val) plus the names   *)
(* of the properties that are present with the value undefined (undef).     *)
(* A serialised string is represented by the record of the properties it    *)
(* spells out.                                                              *)

Obj(val, undef) == [val |-> val, undef |-> undef]

JSONstringify(obj) == obj.val

JSONparse(str) == Obj(str, {})

Truthy(obj) == "success" \in DOMAIN obj.val /\ obj.val.success = TRUE

NoBody == [none |-> TRUE]

NoResult == [status |-> 0, obj |-> Obj(NoBody, {})]

NoResponse == [status |-> 0, body |-> NoBody]

(* res.status(s).json(obj) of express: the body is the serialised object *)
Send(status, obj) == [status |-> status, body |-> JSONstringify(obj)]

----------------------------------------------------------------------------
(* generateCacheKey *)

Or(a, b) == IF a # Absent THEN a ELSE b

generateCacheKey(req) ==
  LET userId == Or(req.userId, Absent)
      k0 == <<"cache", ":", req.path, ":">> \o userId
      k1 == IF req.qPeriod # Absent THEN k0 \o <<":">> \o req.qPeriod ELSE k0
      k2 == IF req.trackerId # Absent
              THEN k1 \o <<":", "tracker", ":">> \o req.trackerId ELSE k1
      k3 == IF req.startDate # Absent /\ req.endDate # Absent
              THEN k2 \o <<":">> \o req.startDate \o <<":">> \o req.endDate
              ELSE k2
  IN  k3

(* Redis glob matching of KEYS, for patterns built from literals and "*" *)
RECURSIVE GlobMatch(_, _)
GlobMatch(p, s) ==
  IF p = <<>> THEN s = <<>>
  ELSE IF Head(p) = "*"
    THEN GlobMatch(Tail(p), s) \/ (s # <<>> /\ GlobMatch(p, Tail(s)))
    ELSE s # <<>> /\ Head(s) = Head(p) /\ GlobMatch(Tail(p), Tail(s))

searchPattern(userId) == <<"cache", ":", "*", ":">> \o userId \o <<"*">>

----------------------------------------------------------------------------
(* Controller: synchronous validation of the read handlers *)

ValidateNoDateParse(req) ==
  LET kind == RouteKind(req.path) IN
  IF kind = "range"
    THEN IF req.startDate = Absent \/ req.endDate = Absent
           THEN "startDate and endDate query parameters are required"
           ELSE "ok"
  ELSE IF kind = "period"
    THEN IF req.period \notin ValidPeriods
           THEN "Period must be one of: week, month, year"
           ELSE "ok"
  ELSE "ok"

Validate(req) ==
  LET kind == RouteKind(req.path) IN
  IF kind = "range"
    THEN IF req.startDate = Absent \/ req.endDate = Absent
           THEN "startDate and endDate query parameters are required"
         ELSE IF req.startDate \notin ValidDates \/ req.endDate \notin ValidDates
           THEN "Invalid date format. Use YYYY-MM-DD"
         ELSE "ok"
  ELSE IF kind = "period"
    THEN IF req.period \notin ValidPeriods
           THEN "Period must be one of: week, month, year"
           ELSE "ok"
  ELSE "ok"

ErrorResult(status, msg) ==
  [status |-> status, obj |-> Obj([success |-> FALSE, error |-> msg], {})]

(* What the handler hands to the tracker service *)
Scope(req) ==
  LET kind == RouteKind(req.path) IN
  [path |-> req.path, userId |-> req.userId,
   period |-> IF kind = "period" THEN req.period ELSE Absent,
   trackerId |-> IF kind = "active" THEN Absent ELSE req.trackerId,
   startDate |-> IF kind = "range" THEN req.startDate ELSE Absent,
   endDate |-> IF kind = "range" THEN req.endDate ELSE Absent]

(* new Date(s).getTime() of a date string that parses *)
DateValue(s) == IF s = <<"d1">> THEN 1 ELSE 2

(* A range whose start is after its end, which the tracker service rejects  *)
(* before it reads any session                                              *)
Reversed(req) ==
  /\ RouteKind(req.path) = "range"
  /\ req.startDate \in ValidDates /\ req.endDate \in ValidDates
  /\ DateValue(req.startDate) > DateValue(req.endDate)

(* Result envelope of the tracker service for a read of the given scope at  *)
(* the given version of the user's sessions                                 *)
ServiceRead(outcome, req, ver) ==
  IF outcome = "ok"
    THEN [status |-> 200,
          obj |-> Obj([success |-> TRUE,
                       data |-> [scope |-> Scope(req), userId |-> req.userId,
                                 ver |-> ver]], {"error"})]
    ELSE [status |-> 400,
          obj |-> Obj([success |-> FALSE,
                       error |-> IF Reversed(req) THEN "invalid range"
                                 ELSE "not found"], {"data"})]

(* catch branch of the read handlers *)
InternalError ==
  [status |-> 500, obj |-> Obj([error |-> "Internal server error"], {})]

ServiceOutcomes == {"ok", "fail", "throw"}

ServiceOutcomesAny(req) == ServiceOutcomes

ServiceOutcomesFor(req) ==
  IF Reversed(req) THEN {"fail"} ELSE ServiceOutcomes

----------------------------------------------------------------------------
(* cacheMiddleware *)

SkipsCacheNever(method) == FALSE

(* if (req.method !== "GET") return next() *)
SkipsCache(method) == method # "GET"

IsHitNever(c, key) == FALSE

(* if (cachedData) *)
IsHit(c, key) == key \in DOMAIN c

ShouldCacheAnyResponse(override, obj) == override

(* if (data && data.success) in the res.json override *)
ShouldCache(override, obj) == override /\ Truthy(obj)

OnGetErrorKeepCaching(r) == [r EXCEPT !.getOutcome = "fail", !.override = TRUE]

OnGetErrorRespond500(r) ==
  [r EXCEPT !.getOutcome = "fail", !.override = FALSE,
            !.resp = Send(500, Obj([error |-> "Internal server error"], {})),
            !.responses = @ + 1]

(* .catch of the get: continue to the controller, nothing is sent *)
OnGetError(r) == [r EXCEPT !.getOutcome = "fail", !.override = FALSE]

OnParseErrorAfterSend(r) ==
  [r EXCEPT !.getOutcome = "unparsable", !.override = FALSE,
            !.resp = Send(200, JSONparse(r.found.payload)),
            !.responses = @ + 1]

(* JSON.parse(cachedData) throws inside the then of the get: the same catch *)
(* continues to the controller, nothing has been sent                       *)
OnParseError(r) == [r EXCEPT !.getOutcome = "unparsable", !.override = FALSE]

(* A request whose response is out and whose cache work is over leaves the  *)
(* system before anything else happens                                      *)
ReaderSettled(r) == r.pc = "done" /\ r.setState # "pending"

WriterSettled(w) == w.pc \in {"done", "noresp"} /\ w.inv \notin {"keys", "del"}

NoneSettled ==
  /\ \A i \in DOMAIN rd : ~ReaderSettled(rd[i])
  /\ \A j \in DOMAIN wr : ~WriterSettled(wr[j])

(* A cache entry: the stored string, its remaining time to live, the time  *)
(* since it was stored and the version of the user's sessions at the set    *)
NoEntry == [payload |-> NoBody, ttl |-> 0, age |-> 0, wver |-> 0]

AfterGetTouch(c, key) ==
  IF key \in DOMAIN c THEN [c EXCEPT ![key].ttl = CACHE_TTL] ELSE c

(* redisClient.get(cacheKey) reads the store and leaves it as it is *)
AfterGet(c, key) == c

IdleReader ==
  [pc |-> "idle",
   req |-> ReadRequest("GET", "/users/:userId/today", Absent, Absent, Absent,
                       Absent, Absent, Absent),
   key |-> Absent,
   override |-> FALSE, getOutcome |-> "none", present |-> FALSE,
   found |-> NoEntry, handlerRuns |-> 0, responses |-> 0,
   result |-> NoResult, resp |-> NoResponse,
   setState |-> "none", setVal |-> NoBody, setTtl |-> 0, overwrote |-> FALSE,
   ackedAtStart |-> 0]

Put(c, key, e) == [k \in DOMAIN c \cup {key} |-> IF k = key THEN e ELSE c[k]]

RemoveNothing(c, keys) == c

(* redisClient.del(keys) *)
Remove(c, keys) == [k \in DOMAIN c \ keys |-> c[k]]

(* next(): the handler runs up to its first await *)
HandlerSync(r) ==
  LET v == Validate(r.req) IN
  IF v = "ok"
    THEN [r EXCEPT !.pc = "service", !.handlerRuns = @ + 1]
    ELSE [r EXCEPT !.pc = "done", !.handlerRuns = @ + 1,
                   !.result = ErrorResult(400, v),
                   !.resp = Send(400, ErrorResult(400, v).obj),
                   !.responses = @ + 1,
                   !.setState = IF ShouldCache(r.override, ErrorResult(400, v).obj)
                                  THEN "pending" ELSE "none",
                   !.setVal = IF ShouldCache(r.override, ErrorResult(400, v).obj)
                                THEN JSONstringify(ErrorResult(400, v).obj)
                                ELSE NoBody,
                   !.setTtl = IF ShouldCache(r.override, ErrorResult(400, v).obj)
                                THEN CACHE_TTL ELSE 0]

(* A request of reqs arrives and cacheMiddleware runs: a request that is   *)
(* not a GET goes straight to the handler; for a GET the key is derived,    *)
(* the get is answered by the store (or fails) and its callback runs        *)
cacheMiddlewareWith(i, reqs, parses) ==
  /\ NoneSettled
  /\ rd[i].pc = "idle"
  /\ \A h \in DOMAIN rd : h < i => rd[h].pc # "idle"
  /\ issued < MaxRequests
  /\ \E req \in reqs, ok \in BOOLEAN, parsable \in parses :
       LET key == generateCacheKey(req)
           r0 == [IdleReader EXCEPT
                    !.req = req,
                    !.ackedAtStart = acked[req.userId]]
           r == [r0 EXCEPT
                   !.key = key,
                   !.present = key \in DOMAIN cache,
                   !.found = IF key \in DOMAIN cache THEN cache[key]
                             ELSE NoEntry]
       IN IF SkipsCache(req.method)
            THEN /\ ok
                 /\ rd' = [rd EXCEPT ![i] =
                             HandlerSync([r0 EXCEPT !.getOutcome = "skipped"])]
                 /\ cache' = cache
            ELSE /\ rd' = [rd EXCEPT ![i] =
                             IF ~ok THEN HandlerSync(OnGetError(r))
                             ELSE IF IsHit(cache, key) /\ ~parsable
                               THEN HandlerSync(OnParseError(r))
                             ELSE IF IsHit(cache, key)
                               THEN [r EXCEPT
                                       !.pc = "done", !.getOutcome = "hit",
                                       !.resp = Send(200,
                                                  JSONparse(cache[key].payload)),
                                       !.responses = @ + 1]
                               ELSE HandlerSync([r EXCEPT !.getOutcome = "miss",
                                                          !.override = TRUE])]
                 /\ cache' = IF ok THEN AfterGet(cache, key) ELSE cache
  /\ issued' = issued + 1
  /\ UNCHANGED <<store, wr, acked, call>>

(* The cache store holds only what this program has set, which parses *)
cacheMiddlewareOn(i, reqs) == cacheMiddlewareWith(i, reqs, {TRUE})

cacheMiddleware(i) == cacheMiddlewareOn(i, ReadRequests)

ReadService(i) ==
  /\ NoneSettled
  /\ rd[i].pc = "service"
  /\ \E outcome \in ServiceOutcomesFor(rd[i].req) :
       LET res == IF outcome = "throw" THEN InternalError
                  ELSE ServiceRead(outcome, rd[i].req, store[rd[i].req.userId])
           doSet == ShouldCache(rd[i].override, res.obj)
       IN rd' = [rd EXCEPT ![i] =
                   [@ EXCEPT !.pc = "done", !.result = res,
                             !.resp = Send(res.status, res.obj),
                             !.responses = @ + 1,
                             !.setState = IF doSet THEN "pending" ELSE "none",
                             !.setVal = IF doSet THEN JSONstringify(res.obj)
                                        ELSE NoBody,
                             !.setTtl = IF doSet THEN CACHE_TTL ELSE 0]]
  /\ UNCHANGED <<cache, store, wr, acked, issued, call>>

(* redisClient.setex(cacheKey, CACHE_TTL, JSON.stringify(data)) takes effect *)
ReadSet(i) ==
  /\ NoneSettled
  /\ rd[i].setState = "pending"
  /\ \E ok \in BOOLEAN :
       IF ok
         THEN /\ cache' = Put(cache, generateCacheKey(rd[i].req),
                              [payload |-> rd[i].setVal,
                               ttl |-> rd[i].setTtl,
                               age |-> 0,
                               wver |-> store[rd[i].req.userId]])
              /\ rd' = [rd EXCEPT ![i].setState = "stored",
                                   ![i].overwrote =
                                     generateCacheKey(rd[i].req) \in DOMAIN cache]
         ELSE /\ cache' = cache
              /\ rd' = [rd EXCEPT ![i].setState = "failed"]
  /\ UNCHANGED <<store, wr, acked, issued, call>>

----------------------------------------------------------------------------
(* Mutating requests.  owner is the user the tracker belongs to (the userId *)
(* of the body for a create); qUser is the userId query parameter.          *)

WriteRequest(endpoint, owner, qUser, bodyOk) ==
  [endpoint |-> endpoint, owner |-> owner, qUser |-> qUser, bodyOk |-> bodyOk]

WriteRequests ==
  { WriteRequest("create", <<"a">>, Absent, b) : b \in BOOLEAN }
  \cup
  { WriteRequest("start", <<"a">>, q, TRUE) : q \in {Absent, <<"a">>} }
  \cup
  { WriteRequest("stop", <<"a", "b">>, Absent, TRUE),
    WriteRequest("delete", <<"a">>, Absent, TRUE) }

(* Result envelope of the tracker service for a mutation; payloadUser is    *)
(* the userId property of its data, absent when the record carries none     *)
ServiceWrite(outcome, req, payloadUser) ==
  IF outcome = "ok"
    THEN [status |-> IF req.endpoint = "create" THEN 201 ELSE 200,
          obj |-> Obj([success |-> TRUE, data |-> [userId |-> payloadUser]],
                      {"error"})]
    ELSE [status |-> 400,
          obj |-> Obj([success |-> FALSE, error |-> "not found"], {"data"})]

userIdFromPayloadFirst(paramsUserId, queryUserId, dataUserId) ==
  Or(dataUserId, Or(paramsUserId, queryUserId))

(* req.params.userId || req.query.userId || data.data?.userId *)
userIdFrom(paramsUserId, queryUserId, dataUserId) ==
  Or(paramsUserId, Or(queryUserId, dataUserId))

(* The userId of the override for a routed mutation: none of the mutating   *)
(* routes has a :userId path parameter                                      *)
ResolveUserId(req, obj) ==
  LET paramsUserId == Absent
      dataUserId == IF "data" \in DOMAIN obj.val THEN obj.val.data.userId
                    ELSE Absent
  IN userIdFrom(paramsUserId, req.qUser, dataUserId)

ShouldInvalidateNever(req, obj) == FALSE

ShouldInvalidatePutOnly(req, obj) ==
  /\ WriteRoute(req.endpoint).invalidating
  /\ WriteRoute(req.endpoint).method = "PUT"
  /\ Truthy(obj)
  /\ ResolveUserId(req, obj) # Absent

ShouldInvalidateAnyUser(req, obj) ==
  /\ WriteRoute(req.endpoint).invalidating
  /\ WriteRoute(req.endpoint).method \in {"POST", "PUT"}
  /\ Truthy(obj)

(* condition of the res.json override of invalidateAllCacheMiddleware *)
ShouldInvalidate(req, obj) ==
  /\ WriteRoute(req.endpoint).invalidating
  /\ WriteRoute(req.endpoint).method \in {"POST", "PUT"}
  /\ Truthy(obj)
  /\ ResolveUserId(req, obj) # Absent

IdleWriter ==
  [pc |-> "idle",
   req |-> WriteRequest("create", Absent, Absent, FALSE),
   wrote |-> FALSE, verAfter |-> 0, result |-> NoResult, resp |-> NoResponse,
   responses |-> 0, inv |-> "none", invUser |-> Absent, invKeys |-> {}]

(* A mutating request of reqs arrives and its handler runs up to the        *)
(* response: the body check of addTracker, then                             *)
(* await trackerService.<mutation>(...)                                     *)
WriteHandlerOn(j, reqs) ==
  /\ NoneSettled
  /\ wr[j].pc = "idle"
  /\ \A h \in DOMAIN wr : h < j => wr[h].pc # "idle"
  /\ issued < MaxRequests
  /\ issued' = issued + 1
  /\ \E req \in reqs, outcome \in ServiceOutcomes,
        payloadUser \in {Absent} \cup Users :
       LET owner == req.owner
           bad == ErrorResult(400,
                    "Tracker name, target hours, and user ID are required")
           w == [IdleWriter EXCEPT !.req = req]
       IN IF req.endpoint = "create" /\ ~req.bodyOk
            THEN /\ outcome = "fail" /\ payloadUser = Absent
                 /\ store' = store
                 /\ wr' = [wr EXCEPT ![j] =
                             [w EXCEPT !.pc = "respond", !.result = bad]]
          ELSE IF outcome = "ok"
            THEN /\ payloadUser \in {Absent, owner}
                 /\ store[owner] < MaxVersion
                 /\ store' = [store EXCEPT ![owner] = @ + 1]
                 /\ wr' = [wr EXCEPT ![j] =
                             [w EXCEPT !.pc = "respond", !.wrote = TRUE,
                                       !.verAfter = store[owner] + 1,
                                       !.result = ServiceWrite(outcome, req,
                                                               payloadUser)]]
          ELSE IF outcome = "fail"
            THEN /\ payloadUser = Absent
                 /\ store' = store
                 /\ wr' = [wr EXCEPT ![j] =
                             [w EXCEPT !.pc = "respond",
                                       !.result = ServiceWrite(outcome, req,
                                                               payloadUser)]]
          ELSE /\ payloadUser = Absent
               /\ store' = store
               /\ wr' = [wr EXCEPT ![j] = [w EXCEPT !.pc = "noresp"]]
  /\ UNCHANGED <<cache, rd, acked, call>>

WriteHandler(j) == WriteHandlerOn(j, WriteRequests)

(* res.status(..).json(result): the override starts the invalidation, whose *)
(* KEYS command is issued, and then the original json sends the response    *)
WriteRespond(j) ==
  /\ NoneSettled
  /\ wr[j].pc = "respond"
  /\ LET w == wr[j]
         go == ShouldInvalidate(w.req, w.result.obj)
     IN /\ wr' = [wr EXCEPT ![j] =
                    [@ EXCEPT !.pc = "done",
                              !.resp = Send(w.result.status, w.result.obj),
                              !.responses = @ + 1,
                              !.inv = IF go THEN "keys" ELSE "none",
                              !.invUser = IF go
                                            THEN ResolveUserId(w.req, w.result.obj)
                                            ELSE Absent]]
        /\ acked' = IF w.wrote /\ WriteRoute(w.req.endpoint).invalidating
                      THEN [acked EXCEPT ![w.req.owner] =
                              IF w.verAfter > @ THEN w.verAfter ELSE @]
                      ELSE acked
  /\ UNCHANGED <<cache, store, rd, issued, call>>

OnInvErrorRespond500(w) ==
  [w EXCEPT !.inv = "failed",
            !.resp = Send(500, Obj([error |-> "Internal server error"], {})),
            !.responses = @ + 1]

(* catch (err) of invalidateUserCache: the error is logged, nothing else *)
OnInvError(w) == [w EXCEPT !.inv = "failed"]

(* invalidateUserCache: const keys = await redisClient.keys(searchPattern) *)
InvKeys(j) ==
  /\ NoneSettled
  /\ wr[j].inv = "keys"
  /\ \E ok \in BOOLEAN :
       LET keys == {k \in DOMAIN cache :
                      GlobMatch(searchPattern(wr[j].invUser), k)}
       IN wr' = [wr EXCEPT ![j] =
                   IF ~ok THEN OnInvError(@)
                   ELSE IF keys = {} THEN [@ EXCEPT !.inv = "done"]
                   ELSE [@ EXCEPT !.inv = "del", !.invKeys = keys]]
  /\ UNCHANGED <<cache, store, rd, acked, issued, call>>

(* invalidateUserCache: await redisClient.del(...keys) *)
InvDel(j) ==
  /\ NoneSettled
  /\ wr[j].inv = "del"
  /\ \E ok \in BOOLEAN :
       IF ok
         THEN /\ cache' = Remove(cache, wr[j].invKeys)
              /\ wr' = [wr EXCEPT ![j].inv = "done"]
         ELSE /\ cache' = cache
              /\ wr' = [wr EXCEPT ![j] = OnInvError(@)]
  /\ UNCHANGED <<store, rd, acked, issued, call>>

ReadFinish(i) ==
  /\ ReaderSettled(rd[i])
  /\ rd' = [rd EXCEPT ![i] = IdleReader]
  /\ UNCHANGED <<cache, store, wr, acked, issued, call>>

WriteFinish(j) ==
  /\ WriterSettled(wr[j])
  /\ wr' = [wr EXCEPT ![j] = IdleWriter]
  /\ UNCHANGED <<cache, store, rd, acked, issued, call>>

(* TickSeconds pass: every entry's remaining time to live shrinks, and the *)
(* store drops the entries whose time has run out                           *)
Tick ==
  /\ NoneSettled
  /\ DOMAIN cache # {}
  /\ cache' = [k \in {x \in DOMAIN cache : cache[x].ttl > TickSeconds} |->
                 [cache[k] EXCEPT !.ttl = @ - TickSeconds,
                                  !.age = @ + TickSeconds]]
  /\ UNCHANGED <<store, rd, wr, acked, issued, call>>

----------------------------------------------------------------------------
(* Functions evaluated on their own: call holds the function, its           *)
(* arguments and, once it has returned, its result                          *)

NoCall == [fn |-> "none"]

(* A raw query string: its name=value pairs in the order they were written *)
QueryNames == {"period", "trackerId", "startDate", "endDate"}

QueryValueOf(name) ==
  IF name = "period" THEN <<"week">>
  ELSE IF name = "trackerId" THEN <<"t">>
  ELSE IF name = "startDate" THEN <<"d1">>
  ELSE <<"d2">>

RawQueries ==
  UNION { { q \in [1..n -> QueryNames] :
              \A x, y \in 1..n : x # y => q[x] # q[y] } : n \in 0..MaxQueryParams }

(* req.query of express: the value written for the name, undefined if none *)
QueryParam(raw, name) ==
  IF \E x \in DOMAIN raw : raw[x] = name THEN QueryValueOf(name) ELSE Absent

RECURSIVE RawText(_)
RawText(raw) ==
  IF raw = <<>> THEN <<>>
  ELSE <<":", Head(raw), "=">> \o QueryValueOf(Head(raw)) \o RawText(Tail(raw))

cacheKeyFromUrl(path, userId, raw) ==
  <<"cache", ":", path, ":">> \o userId \o RawText(raw)

(* const cacheKey = generateCacheKey(req) for a GET of the parsed query *)
cacheKeyOf(path, userId, raw) ==
  generateCacheKey(ReadRequest("GET", path, userId, Absent,
                               QueryParam(raw, "period"),
                               QueryParam(raw, "trackerId"),
                               QueryParam(raw, "startDate"),
                               QueryParam(raw, "endDate")))

UserInputs == {Absent} \cup Users

ResolveCalls ==
  { [fn |-> "userId", params |-> p, query |-> q, data |-> d, out |-> Absent,
     returned |-> FALSE] : p \in UserInputs, q \in UserInputs, d \in UserInputs }

KeyCalls ==
  { [fn |-> "key", path |-> path, first |-> q1, second |-> q2,
     out |-> <<Absent, Absent>>, returned |-> FALSE] :
      path \in {"/users/:userId/today", "/users/:userId/daily-totals"},
      q1 \in RawQueries,
      q2 \in RawQueries }

(* The same parameters, written in any order *)
SameParams(q1, q2) ==
  {q1[x] : x \in DOMAIN q1} = {q2[x] : x \in DOMAIN q2}

(* Daily bucket aggregation of the tracker service.  Days are numbered;   *)
(* an instant is a number of minutes, day d being the minutes from          *)
(* d * MinutesPerDay up to (d + 1) * MinutesPerDay; a session without an    *)
(* end is active and ends at the instant of the evaluation.                 *)

NoEnd == 0

Days == 1..MaxDay

Instants == { d * MinutesPerDay + o : d \in Days, o \in {0, 480} }

SessionInputs ==
  { [start |-> a, end |-> b] : a \in Instants, b \in Instants \cup {NoEnd} }
    \ { x \in [start : Instants, end : Instants] : x.end <= x.start }

Min(a, b) == IF a < b THEN a ELSE b

Max(a, b) == IF a > b THEN a ELSE b

OverlapUnclipped(x, d, now) ==
  LET end == IF x.end = NoEnd THEN now ELSE x.end
  IN IF x.start < (d + 1) * MinutesPerDay /\ end > d * MinutesPerDay
       THEN end - x.start ELSE 0

(* Minutes of the session that fall within day d *)
Overlap(x, d, now) ==
  LET end == IF x.end = NoEnd THEN now ELSE x.end
      lo == Max(x.start, d * MinutesPerDay)
      hi == Min(end, (d + 1) * MinutesPerDay)
  IN IF hi > lo THEN hi - lo ELSE 0

RECURSIVE SumOverlap(_, _, _)
SumOverlap(sessions, d, now) ==
  IF sessions = {} THEN 0
  ELSE LET x == CHOOSE y \in sessions : TRUE
       IN Overlap(x, d, now) + SumOverlap(sessions \ {x}, d, now)

DailyBucket(sessions, d, now) ==
  [date |-> d,
   totalMinutes |-> SumOverlap(sessions, d, now),
   sessionCount |-> Cardinality({x \in sessions : Overlap(x, d, now) > 0})]

InvalidRange == [success |-> FALSE, data |-> <<>>]

aggregateSparse(startDate, endDate, sessions, now) ==
  IF startDate > endDate THEN InvalidRange
  ELSE [success |-> TRUE,
        data |-> SelectSeq([i \in 1..(endDate - startDate + 1) |->
                             DailyBucket(sessions, startDate + i - 1, now)],
                           LAMBDA b : b.sessionCount > 0)]

aggregate(startDate, endDate, sessions, now) ==
  IF startDate > endDate THEN InvalidRange
  ELSE [success |-> TRUE,
        data |-> [i \in 1..(endDate - startDate + 1) |->
                    DailyBucket(sessions, startDate + i - 1, now)]]

(* The session sets of at most MaxSessions sessions *)
SessionSets ==
  UNION { { {f[x] : x \in 1..n} : f \in [1..n -> SessionInputs] } :
            n \in 0..MaxSessions }

AggregateCalls ==
  { [fn |-> "aggregate", startDate |-> a, endDate |-> b, sessions |-> S,
     now |-> MaxDay * MinutesPerDay + 480, out |-> InvalidRange,
     returned |-> FALSE] :
      a \in Days, b \in Days,
      S \in SessionSets }

EvalAggregate ==
  /\ call.fn = "aggregate" /\ ~call.returned
  /\ call' = [call EXCEPT !.out = aggregate(call.startDate, call.endDate,
                                            call.sessions, call.now),
                          !.returned = TRUE]
  /\ UNCHANGED <<cache, store, rd, wr, acked, issued>>

(* Period resolution of the tracker service: the range of the named period *)
(* that ends at today                                                       *)

periodDays(period) ==
  IF period = <<"week">> THEN 7
  ELSE IF period = <<"month">> THEN 30
  ELSE 365

NoRange == [startDate |-> 0, endDate |-> 0]

resolveBeforeToday(period, today) ==
  [startDate |-> today - periodDays(period), endDate |-> today - 1]

resolve(period, today) ==
  [startDate |-> today - (periodDays(period) - 1), endDate |-> today]

PeriodCalls ==
  { [fn |-> "period", period |-> p, today |-> t, out |-> NoRange,
     returned |-> FALSE] : p \in ValidPeriods, t \in Days }

EvalPeriod ==
  /\ call.fn = "period" /\ ~call.returned
  /\ call' = [call EXCEPT !.out = resolve(call.period, call.today),
                          !.returned = TRUE]
  /\ UNCHANGED <<cache, store, rd, wr, acked, issued>>

EvalUserId ==
  /\ call.fn = "userId" /\ ~call.returned
  /\ call' = [call EXCEPT !.out = userIdFrom(call.params, call.query, call.data),
                          !.returned = TRUE]
  /\ UNCHANGED <<cache, store, rd, wr, acked, issued>>

EvalKey ==
  /\ call.fn = "key" /\ ~call.returned
  /\ call' = [call EXCEPT !.out = <<cacheKeyOf(call.path, <<"a">>, call.first),
                                    cacheKeyOf(call.path, <<"a">>, call.second)>>,
                          !.returned = TRUE]
  /\ UNCHANGED <<cache, store, rd, wr, acked, issued>>

----------------------------------------------------------------------------

Init ==
  /\ cache = [k \in {} |-> NoEntry]
  /\ store = [u \in Users |-> 0]
  /\ rd = [i \in Readers |-> IdleReader]
  /\ wr = [j \in Writers |-> IdleWriter]
  /\ acked = [u \in Users |-> 0]
  /\ issued = 0
  /\ call = NoCall

Next ==
  \/ \E i \in Readers : cacheMiddleware(i)
  \/ \E i \in Readers : ReadService(i)
  \/ \E i \in Readers : ReadSet(i)
  \/ \E j \in Writers : WriteHandler(j)
  \/ \E j \in Writers : WriteRespond(j)
  \/ \E j \in Writers : InvKeys(j)
  \/ \E j \in Writers : InvDel(j)
  \/ \E i \in Readers : ReadFinish(i)
  \/ \E j \in Writers : WriteFinish(j)
  \/ Tick

Spec == Init /\ [][Next]_vars

----------------------------------------------------------------------------
(* Two reads in flight at once, on the routes that share the keys of user a *)

ConcReaders == {1, 2}

ConcReadRequests ==
  { ReadRequest("GET", "/users/:userId/today", <<"a">>, Absent, Absent,
                Absent, Absent, Absent) }
  \cup
  { ReadRequest("GET", "/users/:userId/daily-totals/:period", <<"a">>, p,
                Absent, Absent, Absent, Absent) : p \in {<<"week">>, <<"month">>} }

ConcWriteRequests == { WriteRequest("start", <<"a">>, <<"a">>, TRUE) }

InitConc ==
  /\ cache = [k \in {} |-> NoEntry]
  /\ store = [u \in Users |-> 0]
  /\ rd = [i \in ConcReaders |-> IdleReader]
  /\ wr = [j \in Writers |-> IdleWriter]
  /\ acked = [u \in Users |-> 0]
  /\ issued = 0
  /\ call = NoCall

NextConc ==
  \/ \E i \in ConcReaders : cacheMiddlewareOn(i, ConcReadRequests)
  \/ \E i \in ConcReaders : ReadService(i)
  \/ \E i \in ConcReaders : ReadSet(i)
  \/ \E j \in Writers : WriteHandlerOn(j, ConcWriteRequests)
  \/ \E j \in Writers : WriteRespond(j)
  \/ \E j \in Writers : InvKeys(j)
  \/ \E j \in Writers : InvDel(j)
  \/ \E i \in ConcReaders : ReadFinish(i)
  \/ \E j \in Writers : WriteFinish(j)
  \/ Tick

SpecConc == InitConc /\ [][NextConc]_vars

----------------------------------------------------------------------------
(* The date-range route with every combination of a missing, an unparsable *)
(* and a valid startDate and endDate, reversed ranges included              *)

RangeRequests ==
  { ReadRequest("GET", "/users/:userId/daily-totals", <<"a">>, Absent, Absent,
                Absent, s, e) :
      s \in DateInputs \cup ValidDates, e \in DateInputs \cup ValidDates }

NextRange ==
  \/ \E i \in Readers : cacheMiddlewareOn(i, RangeRequests)
  \/ \E i \in Readers : ReadService(i)
  \/ \E i \in Readers : ReadSet(i)
  \/ \E j \in Writers : WriteHandler(j)
  \/ \E j \in Writers : WriteRespond(j)
  \/ \E j \in Writers : InvKeys(j)
  \/ \E j \in Writers : InvDel(j)
  \/ \E i \in Readers : ReadFinish(i)
  \/ \E j \in Writers : WriteFinish(j)
  \/ Tick

SpecRange == Init /\ [][NextRange]_vars

----------------------------------------------------------------------------
(* The cache store shared with other clients: a value found under a key may *)
(* be one that does not parse.  Expiry is left to the store and plays no    *)
(* part in how a request is dispatched.                                     *)

NextForeign ==
  \/ \E i \in Readers : cacheMiddlewareWith(i, ReadRequests, BOOLEAN)
  \/ \E i \in Readers : ReadService(i)
  \/ \E i \in Readers : ReadSet(i)
  \/ \E j \in Writers : WriteHandler(j)
  \/ \E j \in Writers : WriteRespond(j)
  \/ \E j \in Writers : InvKeys(j)
  \/ \E j \in Writers : InvDel(j)
  \/ \E i \in Readers : ReadFinish(i)
  \/ \E j \in Writers : WriteFinish(j)

SpecForeign == Init /\ [][NextForeign]_vars

----------------------------------------------------------------------------
(* The functions on their own: a call is chosen and evaluated *)

InitPure ==
  /\ cache = [k \in {} |-> NoEntry]
  /\ store = [u \in Users |-> 0]
  /\ rd = [i \in Readers |-> IdleReader]
  /\ wr = [j \in Writers |-> IdleWriter]
  /\ acked = [u \in Users |-> 0]
  /\ issued = 0
  /\ call \in ResolveCalls \cup KeyCalls \cup AggregateCalls \cup PeriodCalls

NextPure ==
  \/ EvalUserId
  \/ EvalKey
  \/ EvalAggregate
  \/ EvalPeriod

SpecPure == InitPure /\ [][NextPure]_vars

----------------------------------------------------------------------------
(* Properties *)

Responded(r) == r.pc = "done"

(* The user a cache entry was computed for *)
EntryUser(e) == e.payload.data.userId

(* A request the handlers reject: a period outside week, month, year, or a  *)
(* missing or unparsable startDate or endDate                               *)
InvalidRequest(req) ==
  \/ /\ RouteKind(req.path) = "period"
     /\ req.period \notin {<<"week">>, <<"month">>, <<"year">>}
  \/ /\ RouteKind(req.path) = "range"
     /\ \/ req.startDate = Absent \/ req.endDate = Absent
        \/ req.startDate \notin ValidDates \/ req.endDate \notin ValidDates

(* C1: a read of user U that arrives after the successful response of a     *)
(* create, start, stop, archive or unarchive of U never hits an entry that  *)
(* was stored before that mutation: such a read is a miss.                  *)
C1_ReadAfterWriteMisses ==
  \A i \in Readers :
    rd[i].getOutcome = "hit" => rd[i].found.wver >= rd[i].ackedAtStart

(* C2: the delete of an invalidation for user U removes no entry that is    *)
(* keyed under another user V.                                              *)
C2_OtherUsersUntouched ==
  [][\A j \in Writers :
       (wr[j].inv = "del" /\ wr'[j].inv = "done") =>
         \A k \in DOMAIN cache :
           EntryUser(cache[k]) # wr[j].invUser => k \in DOMAIN cache']_vars

(* C3: a payload served from the cache was computed for the route, user,    *)
(* period, tracker and date range of the request it is served to.           *)
C3_ServedForOwnScope ==
  \A i \in Readers :
    rd[i].getOutcome = "hit" => rd[i].resp.body.data.scope = Scope(rd[i].req)

(* C4 as claimed: a request that repeats the route and scope of a request   *)
(* whose payload is stored, unexpired and not invalidated, is a hit, does   *)
(* not run the handler and returns the stored payload.                      *)
C4_RepeatIsHit ==
  \A i \in Readers :
    (rd[i].present /\ rd[i].found.payload.data.scope = Scope(rd[i].req)) =>
      /\ rd[i].getOutcome = "hit"
      /\ rd[i].handlerRuns = 0
      /\ rd[i].resp = [status |-> 200, body |-> rd[i].found.payload]

(* C4 amended: the same, for a repeat whose get the store answers; and the  *)
(* payload an entry holds is the body its request returned.                 *)
C4_AnsweredRepeatIsHit ==
  \A i \in Readers :
    /\ (rd[i].present /\ rd[i].getOutcome # "fail"
        /\ rd[i].found.payload.data.scope = Scope(rd[i].req)) =>
         /\ rd[i].getOutcome = "hit"
         /\ rd[i].handlerRuns = 0
         /\ rd[i].responses = 1
         /\ rd[i].resp = [status |-> 200, body |-> rd[i].found.payload]
    /\ rd[i].setState = "stored" =>
         /\ generateCacheKey(rd[i].req) \in DOMAIN cache
         /\ cache[generateCacheKey(rd[i].req)].payload = rd[i].resp.body
         /\ rd[i].resp.status = 200

C4_Witness ==
  \E i \in Readers :
    /\ rd[i].getOutcome = "hit"
    /\ rd[i].found.payload.data.scope = Scope(rd[i].req)
    /\ rd[i].found.wver = 1

(* C5: every cache entry holds a payload whose success flag is true, and a  *)
(* response without a true success flag causes no set.                      *)
C5_OnlySuccessCached ==
  /\ \A k \in DOMAIN cache :
       "success" \in DOMAIN cache[k].payload /\ cache[k].payload.success = TRUE
  /\ \A i \in Readers :
       rd[i].setState # "none" =>
         /\ "success" \in DOMAIN rd[i].resp.body
         /\ rd[i].resp.body.success = TRUE

C5_Witness ==
  \E i \in Readers :
    /\ rd[i].getOutcome = "miss"
    /\ Responded(rd[i])
    /\ rd[i].resp.status = 500
    /\ rd[i].setState = "none"
    /\ DOMAIN cache # {}

(* C6: a failed get sends the request through the handler once and the      *)
(* response is the handler's live result; a failed set leaves the response  *)
(* that was computed as it is.                                              *)
C6_FailOpen ==
  \A i \in Readers :
    /\ (rd[i].getOutcome = "fail" /\ Responded(rd[i])) =>
         /\ rd[i].handlerRuns = 1
         /\ rd[i].responses = 1
         /\ rd[i].resp = Send(rd[i].result.status, rd[i].result.obj)
         /\ rd[i].resp.status = 200 =>
              /\ rd[i].resp.body.data.scope = Scope(rd[i].req)
              /\ rd[i].resp.body.data.ver = store[rd[i].req.userId]
    /\ rd[i].setState = "failed" =>
         /\ rd[i].handlerRuns = 1
         /\ rd[i].responses = 1
         /\ rd[i].resp = Send(rd[i].result.status, rd[i].result.obj)
         /\ rd[i].resp.status = 200

C6_Witness ==
  \E i \in Readers :
    /\ rd[i].getOutcome = "fail"
    /\ rd[i].present
    /\ Responded(rd[i])
    /\ rd[i].resp.status = 200
    /\ rd[i].resp.body.data.ver > rd[i].found.payload.data.ver

(* C7: a GET on a period route whose period is not week, month or year is   *)
(* answered 400 with success false.                                         *)
C7_BadPeriodRejected ==
  \A i \in Readers :
    (/\ Responded(rd[i])
     /\ RouteKind(rd[i].req.path) = "period"
     /\ rd[i].req.period \notin {<<"week">>, <<"month">>, <<"year">>}) =>
      /\ rd[i].resp.status = 400
      /\ rd[i].resp.body.success = FALSE

(* C8 as claimed: a read request that fails validation performs no cache    *)
(* get and no cache set.                                                    *)
C8_NoCacheWorkWhenInvalid ==
  \A i \in Readers :
    (rd[i].pc # "idle" /\ InvalidRequest(rd[i].req)) =>
      rd[i].getOutcome = "none" /\ rd[i].setState = "none"

(* C8 amended: a read request that fails validation performs no cache set;  *)
(* its cache get is performed before the handler validates it.              *)
C8_NoSetWhenInvalid ==
  \A i \in Readers :
    (rd[i].pc # "idle" /\ InvalidRequest(rd[i].req)) =>
      /\ rd[i].setState = "none"
      /\ rd[i].getOutcome # "none"
      /\ rd[i].handlerRuns = 1 => rd[i].resp.status = 400

C8_Witness ==
  \E i \in Readers :
    /\ InvalidRequest(rd[i].req)
    /\ rd[i].getOutcome = "miss"
    /\ rd[i].override
    /\ rd[i].resp.status = 400
    /\ RouteKind(rd[i].req.path) = "range"
    /\ rd[i].req.startDate # Absent

(* C9: every successful write through a routed mutating endpoint starts an  *)
(* invalidation for the user it affects.                                    *)
C9_WriteInvalidates ==
  \A j \in Writers :
    (wr[j].wrote /\ wr[j].pc = "done") =>
      wr[j].inv # "none" /\ wr[j].invUser = wr[j].req.owner

(* An entry of the writer's user that was stored before its write *)
Predates(e, w) == EntryUser(e) = w.req.owner /\ e.wver < w.verAfter

(* C10 as claimed: when the response of a successful mutation is out, no    *)
(* entry of the affected user that predates the write is in the cache.      *)
C10_PurgedBeforeResponse ==
  \A j \in Writers :
    (wr[j].pc = "done" /\ wr[j].wrote /\ wr[j].inv # "none"
     /\ wr[j].invUser = wr[j].req.owner) =>
      \A k \in DOMAIN cache : ~Predates(cache[k], wr[j])

(* C10 amended: the write comes first; the invalidation of a resolved user  *)
(* is started by the time the response is out; entries are deleted only     *)
(* after the response.                                                      *)
C10_WriteThenLookupThenResponse ==
  \A j \in Writers :
    /\ (wr[j].pc = "done" /\ WriteRoute(wr[j].req.endpoint).invalidating
        /\ wr[j].wrote
        /\ ResolveUserId(wr[j].req, wr[j].result.obj) # Absent) =>
         /\ wr[j].inv # "none"
         /\ wr[j].invUser = ResolveUserId(wr[j].req, wr[j].result.obj)
    /\ wr[j].inv # "none" => wr[j].wrote /\ wr[j].responses = 1
    /\ wr[j].pc = "respond" => wr[j].inv = "none" /\ wr[j].responses = 0

C10_Witness ==
  \E j \in Writers :
    /\ wr[j].pc = "done"
    /\ wr[j].inv = "del"
    /\ \E k \in wr[j].invKeys : k \in DOMAIN cache /\ Predates(cache[k], wr[j])

(* A mutation answered with success: true on a route that carries          *)
(* invalidateAllCacheMiddleware and whose method is POST or PUT             *)
SuccessOnInvalidatingRoute(w) ==
  /\ w.pc = "done"
  /\ WriteRoute(w.req.endpoint).invalidating
  /\ WriteRoute(w.req.endpoint).method \in {"POST", "PUT"}
  /\ "success" \in DOMAIN w.resp.body
  /\ w.resp.body.success = TRUE

(* The userId property of the data of a mutation's result *)
PayloadUser(w) ==
  IF "data" \in DOMAIN w.result.obj.val THEN w.result.obj.val.data.userId
  ELSE Absent

(* C11: a successful POST/PUT response on an invalidating route whose       *)
(* userId resolves always comes with the key lookup of that user's          *)
(* invalidation (any key of that userId) issued, and the response is out   *)
(* while the lookup and the delete are still to complete.                   *)
C11_AttemptedNotAwaited ==
  \A j \in Writers :
    /\ (SuccessOnInvalidatingRoute(wr[j])
        /\ (wr[j].req.qUser # Absent \/ PayloadUser(wr[j]) # Absent)) =>
         /\ wr[j].inv \in {"keys", "del", "done", "failed"}
         /\ wr[j].invUser # Absent
         /\ wr[j].invUser \in {wr[j].req.qUser, PayloadUser(wr[j])}
         /\ searchPattern(wr[j].invUser) =
              <<"cache", ":", "*", ":">> \o wr[j].invUser \o <<"*">>
    /\ wr[j].inv \in {"keys", "del"} =>
         /\ wr[j].pc = "done"
         /\ wr[j].responses = 1
         /\ wr[j].resp = Send(wr[j].result.status, wr[j].result.obj)

C11_Witness ==
  \E j \in Writers :
    /\ SuccessOnInvalidatingRoute(wr[j])
    /\ wr[j].inv = "keys"
    /\ wr[j].responses = 1
    /\ \E k \in DOMAIN cache : GlobMatch(searchPattern(wr[j].invUser), k)

(* C12: a keys or del failure of the invalidation changes neither the       *)
(* response the mutating request has sent (the handler's status and         *)
(* payload, sent once) nor the cache: the invalidation is skipped.          *)
C12_InvalidationFailureSilent ==
  [][\A j \in Writers :
       (wr[j].inv # "failed" /\ wr'[j].inv = "failed") =>
         /\ wr[j].responses = 1
         /\ wr[j].resp = Send(wr[j].result.status, wr[j].result.obj)
         /\ wr'[j].resp = wr[j].resp
         /\ wr'[j].responses = wr[j].responses
         /\ wr'[j].pc = "done"
         /\ cache' = cache]_vars

C12_Witness ==
  \E j \in Writers :
    /\ wr[j].inv = "failed"
    /\ wr[j].invKeys # {}
    /\ wr[j].invKeys \subseteq DOMAIN cache
    /\ wr[j].resp.status = 200
    /\ wr[j].resp.body.success = TRUE

(* C13: a payload served from the cache was stored at most CACHE_TTL        *)
(* seconds before the read, whatever became of the invalidations; the       *)
(* lifetime of an entry is fixed when it is stored: the time since the set  *)
(* plus the time left is always CACHE_TTL, so a hit extends nothing.        *)
C13_StalenessBounded ==
  /\ \A k \in DOMAIN cache :
       /\ cache[k].ttl > 0
       /\ cache[k].age + cache[k].ttl = CACHE_TTL
  /\ \A i \in Readers :
       rd[i].getOutcome = "hit" =>
         /\ rd[i].found.age >= 0
         /\ rd[i].found.age <= CACHE_TTL
         /\ rd[i].key \in DOMAIN cache => cache[rd[i].key] = rd[i].found

C13_Witness ==
  \E i \in Readers :
    /\ rd[i].getOutcome = "hit"
    /\ rd[i].found.age >= TickSeconds
    /\ rd[i].found.wver < rd[i].ackedAtStart

(* C15: a successful POST/PUT with no userId in the path, the query or the  *)
(* result payload issues no key lookup and no delete.                       *)
C15_NoUserNoInvalidation ==
  \A j \in Writers :
    (SuccessOnInvalidatingRoute(wr[j])
     /\ wr[j].req.qUser = Absent /\ PayloadUser(wr[j]) = Absent) =>
      /\ wr[j].inv = "none"
      /\ wr[j].invUser = Absent
      /\ wr[j].invKeys = {}

C15_Witness ==
  \E j \in Writers :
    /\ SuccessOnInvalidatingRoute(wr[j])
    /\ wr[j].wrote
    /\ wr[j].req.qUser = Absent /\ PayloadUser(wr[j]) = Absent
    /\ \E k \in DOMAIN cache : Predates(cache[k], wr[j])

(* C17: a request through cacheMiddleware whose method is not GET derives   *)
(* no key, does no cache get and no cache set, and its handler runs once    *)
(* and gives the response.                                                  *)
C17_NonGetSkipsCache ==
  \A i \in Readers :
    (rd[i].pc # "idle" /\ rd[i].req.method # "GET") =>
      /\ rd[i].key = Absent
      /\ rd[i].getOutcome = "skipped"
      /\ ~rd[i].override
      /\ rd[i].setState = "none"
      /\ rd[i].handlerRuns = 1
      /\ Responded(rd[i]) =>
           /\ rd[i].responses = 1
           /\ rd[i].resp = Send(rd[i].result.status, rd[i].result.obj)

C17_Witness ==
  \E i \in Readers :
    /\ rd[i].req.method = "HEAD"
    /\ Responded(rd[i])
    /\ rd[i].resp.status = 200
    /\ generateCacheKey(rd[i].req) \in DOMAIN cache
    /\ cache[generateCacheKey(rd[i].req)].payload # rd[i].resp.body

(* C18: every set is issued with a TTL of 300 seconds and every entry       *)
(* enters the cache with 300 seconds to live, whatever its route and scope. *)
C18_TtlIs300 ==
  /\ \A i \in Readers : rd[i].setState # "none" => rd[i].setTtl = 300
  /\ \A k \in DOMAIN cache : cache[k].age = 0 => cache[k].ttl = 300

C18_Witness ==
  \E k1, k2 \in DOMAIN cache :
    /\ k1[3] # k2[3]
    /\ cache[k1].age = 0
    /\ cache[k2].age = 0

(* C14 as claimed: with reads in flight at once, a set on a key happens     *)
(* only when the key is absent from the cache, so no entry is replaced.     *)
C14_SetOnlyWhenAbsent ==
  \A i \in DOMAIN rd : ~rd[i].overwrote

(* C14 amended: a set is issued only by a request whose own get found the   *)
(* key absent; when another request has stored the key in between, the set  *)
(* replaces the entry as a whole, payload and full TTL (last write wins).   *)
C14_SetOnlyAfterOwnMiss ==
  \A i \in DOMAIN rd :
    /\ rd[i].setState # "none" =>
         /\ rd[i].getOutcome = "miss"
         /\ ~rd[i].present
         /\ rd[i].key = generateCacheKey(rd[i].req)
    /\ rd[i].setState = "stored" =>
         /\ rd[i].key \in DOMAIN cache
         /\ cache[rd[i].key].payload = rd[i].setVal
         /\ cache[rd[i].key].ttl = CACHE_TTL
         /\ cache[rd[i].key].age = 0

C14_Witness ==
  \E i \in DOMAIN rd :
    /\ rd[i].overwrote
    /\ rd[i].setState = "stored"
    /\ rd[i].getOutcome = "miss"
    /\ cache[rd[i].key].payload.data.ver < cache[rd[i].key].wver

(* C16: the userId is the path parameter when there is one, else the query  *)
(* parameter when there is one, else the userId of the result payload.      *)
C16_UserIdPriority ==
  (call.fn = "userId" /\ call.returned) =>
    /\ call.params # Absent => call.out = call.params
    /\ (call.params = Absent /\ call.query # Absent) => call.out = call.query
    /\ (call.params = Absent /\ call.query = Absent) => call.out = call.data

C16_Witness ==
  /\ call.fn = "userId" /\ call.returned
  /\ call.params = Absent
  /\ call.query # Absent
  /\ call.data # Absent
  /\ call.data # call.query
  /\ call.out = call.query

(* C19: two requests on the same route for the same user whose queries      *)
(* carry the same parameters get the same cache key, whatever the order in  *)
(* which the parameters were written.                                       *)
C19_KeyIgnoresQueryOrder ==
  (call.fn = "key" /\ call.returned /\ SameParams(call.first, call.second)) =>
    call.out[1] = call.out[2]

C19_Witness ==
  /\ call.fn = "key" /\ call.returned
  /\ SameParams(call.first, call.second)
  /\ call.first # call.second
  /\ Len(call.first) = 3
  /\ call.out[1] = call.out[2]
  /\ Len(call.out[1]) > 5

(* A session that has minutes within day d *)
Touches(x, d, now) ==
  /\ x.start < (d + 1) * MinutesPerDay
  /\ (IF x.end = NoEnd THEN now ELSE x.end) > d * MinutesPerDay

(* C20: for startDate <= endDate the aggregation returns endDate minus      *)
(* startDate plus one buckets, the i-th for day startDate + i - 1 (so       *)
(* ascending without gaps or duplicates), and a day no session touches has  *)
(* totalMinutes 0 and sessionCount 0.                                       *)
C20_OneBucketPerDay ==
  (call.fn = "aggregate" /\ call.returned /\ call.startDate <= call.endDate) =>
    /\ call.out.success
    /\ Len(call.out.data) = call.endDate - call.startDate + 1
    /\ \A i \in 1..Len(call.out.data) :
         /\ call.out.data[i].date = call.startDate + i - 1
         /\ (\A x \in call.sessions :
               ~Touches(x, call.out.data[i].date, call.now)) =>
              /\ call.out.data[i].totalMinutes = 0
              /\ call.out.data[i].sessionCount = 0

C20_Witness ==
  /\ call.fn = "aggregate" /\ call.returned
  /\ call.startDate = 1 /\ call.endDate = 3
  /\ Len(call.out.data) = 3
  /\ call.out.data[1].sessionCount = 1
  /\ call.out.data[2].sessionCount = 0
  /\ call.out.data[3].sessionCount = 1
  /\ call.out.data[2].totalMinutes = 0
  /\ call.out.data[3].totalMinutes > 0

(* C21: week resolves to the 7 days from today - 6 to today, month to the   *)
(* 30 days from today - 29 to today, year to the 365 days from today - 364  *)
(* to today; the range ends at today.                                       *)
C21_PeriodEndsToday ==
  (call.fn = "period" /\ call.returned) =>
    /\ call.out.endDate = call.today
    /\ call.period = <<"week">> =>
         /\ call.out.startDate = call.today - 6
         /\ call.out.endDate - call.out.startDate + 1 = 7
    /\ call.period = <<"month">> =>
         /\ call.out.startDate = call.today - 29
         /\ call.out.endDate - call.out.startDate + 1 = 30
    /\ call.period = <<"year">> =>
         /\ call.out.startDate = call.today - 364
         /\ call.out.endDate - call.out.startDate + 1 = 365

C21_Witness ==
  /\ call.fn = "period" /\ call.returned
  /\ call.period = <<"month">>
  /\ call.today = 2
  /\ call.out = [startDate |-> -27, endDate |-> 2]

(* Minutes of a session, an active one ending at the evaluation instant *)
Duration(x, now) == (IF x.end = NoEnd THEN now ELSE x.end) - x.start

RECURSIVE TotalDuration(_, _)
TotalDuration(sessions, now) ==
  IF sessions = {} THEN 0
  ELSE LET x == CHOOSE y \in sessions : TRUE
       IN Duration(x, now) + TotalDuration(sessions \ {x}, now)

RECURSIVE TotalMinutes(_)
TotalMinutes(buckets) ==
  IF buckets = <<>> THEN 0
  ELSE Head(buckets).totalMinutes + TotalMinutes(Tail(buckets))

(* The session lies within the days startDate..endDate *)
Inside(x, startDate, endDate, now) ==
  /\ x.start >= startDate * MinutesPerDay
  /\ (IF x.end = NoEnd THEN now ELSE x.end) <= (endDate + 1) * MinutesPerDay

(* C22: a day's totalMinutes is never more than the day, a session that     *)
(* does not touch a day adds nothing to it, a single session adds to each   *)
(* day the minutes between the later of its start and the day's start and   *)
(* the earlier of its end and the day's end, and sessions that lie inside   *)
(* the range add, over all the days, exactly their durations.               *)
C22_OverlapPerDay ==
  (call.fn = "aggregate" /\ call.returned /\ call.startDate <= call.endDate) =>
    /\ \A i \in 1..Len(call.out.data) :
         LET b == call.out.data[i]
             touching == {x \in call.sessions : Touches(x, b.date, call.now)}
         IN /\ touching = {} => b.totalMinutes = 0
            /\ b.totalMinutes <= Cardinality(call.sessions) * MinutesPerDay
            /\ \A x \in call.sessions :
                 call.sessions = {x} =>
                   /\ b.totalMinutes <= Duration(x, call.now)
                   /\ Touches(x, b.date, call.now) =>
                        b.totalMinutes =
                          Min((IF x.end = NoEnd THEN call.now ELSE x.end),
                              (b.date + 1) * MinutesPerDay)
                            - Max(x.start, b.date * MinutesPerDay)
    /\ (\A x \in call.sessions :
          Inside(x, call.startDate, call.endDate, call.now)) =>
         TotalMinutes(call.out.data) = TotalDuration(call.sessions, call.now)

C22_Witness ==
  /\ call.fn = "aggregate" /\ call.returned
  /\ call.startDate = 1 /\ call.endDate = 2
  /\ call.sessions = {[start |-> MinutesPerDay + 480, end |-> 2 * MinutesPerDay + 480]}
  /\ call.out.data[1].totalMinutes = 960
  /\ call.out.data[2].totalMinutes = 480

(* C23: every response of a read endpoint with a status other than 200      *)
(* carries success equal to false and an error message.                     *)
C23_ErrorEnvelope ==
  \A i \in DOMAIN rd :
    (Responded(rd[i]) /\ rd[i].resp.status # 200) =>
      /\ rd[i].resp.status \in {400, 500}
      /\ "success" \in DOMAIN rd[i].resp.body
      /\ rd[i].resp.body.success = FALSE
      /\ "error" \in DOMAIN rd[i].resp.body

(* A date-range read the claim C24 is about *)
BadRange(req) ==
  /\ RouteKind(req.path) = "range"
  /\ \/ req.startDate = Absent \/ req.endDate = Absent
     \/ req.startDate \notin ValidDates \/ req.endDate \notin ValidDates
     \/ Reversed(req)

(* C24: a date-range read whose startDate or endDate is missing or          *)
(* unparsable, or whose startDate is after its endDate, is answered 400     *)
(* with success false and no data, nothing is stored for it, and the        *)
(* handler asks the tracker service only when both dates are present and    *)
(* parse (the service rejects the reversed range before it aggregates).     *)
C24_BadRangeRejected ==
  \A i \in DOMAIN rd :
    /\ (rd[i].pc = "service" /\ RouteKind(rd[i].req.path) = "range") =>
         /\ rd[i].req.startDate \in ValidDates
         /\ rd[i].req.endDate \in ValidDates
    /\ (BadRange(rd[i].req) /\ rd[i].handlerRuns > 0 /\ Responded(rd[i])) =>
         /\ rd[i].resp.status = 400
         /\ "success" \in DOMAIN rd[i].resp.body
         /\ rd[i].resp.body.success = FALSE
         /\ "data" \notin DOMAIN rd[i].resp.body
         /\ rd[i].setState = "none"

C24_Witness ==
  \E i \in DOMAIN rd :
    /\ Reversed(rd[i].req)
    /\ Responded(rd[i])
    /\ rd[i].resp.status = 400
    /\ rd[i].resp.body.error = "invalid range"

(* C27: a request through the cache middleware gets the cached payload      *)
(* without the handler being invoked, or the handler is invoked exactly     *)
(* once (on a miss, a failed get, a cached value that does not parse); it   *)
(* never has two responses and the handler never runs twice.                *)
C27_HitXorHandlerOnce ==
  \A i \in DOMAIN rd :
    /\ rd[i].handlerRuns <= 1
    /\ rd[i].responses <= 1
    /\ rd[i].pc # "idle" =>
         \/ /\ rd[i].getOutcome = "hit"
            /\ rd[i].handlerRuns = 0
            /\ rd[i].responses = 1
            /\ rd[i].resp = Send(200, JSONparse(rd[i].found.payload))
         \/ /\ rd[i].getOutcome \in {"miss", "fail", "unparsable", "skipped"}
            /\ rd[i].handlerRuns = 1
            /\ Responded(rd[i]) => rd[i].responses = 1

C27_Witness ==
  \E i \in DOMAIN rd :
    /\ rd[i].req.method = "GET"
    /\ rd[i].getOutcome = "unparsable"
    /\ rd[i].present
    /\ Responded(rd[i])
    /\ rd[i].handlerRuns = 1
    /\ rd[i].responses = 1

(* C25: two reads in flight that missed the same key and computed from the  *)
(* same version of the sessions are about to store the same payload.        *)
C25_ConcurrentMissesSamePayload ==
  \A i1 \in DOMAIN rd : \A i2 \in DOMAIN rd :
    (/\ i1 # i2
     /\ rd[i1].getOutcome = "miss" /\ rd[i2].getOutcome = "miss"
     /\ rd[i1].key = rd[i2].key
     /\ rd[i1].setState = "pending" /\ rd[i2].setState = "pending"
     /\ rd[i1].setVal.data.ver = rd[i2].setVal.data.ver) =>
      rd[i1].setVal = rd[i2].setVal

(* The entry belongs to the user of the write and its payload was computed  *)
(* from the sessions as they were before the write                          *)
HoldsPreWrite(e, w) ==
  EntryUser(e) = w.req.owner /\ e.payload.data.ver < w.verAfter

(* The invalidation that a successful write of its user started has         *)
(* completed                                                                *)
InvalidationCompleted(w) ==
  w.wrote /\ w.inv = "done" /\ w.invUser = w.req.owner

(* C26 as claimed: when the invalidation for a successful write of a user   *)
(* has completed, no entry of that user holds a payload computed from the   *)
(* sessions as they were before the write.                                  *)
C26_NoPreWritePayloadAfterInvalidation ==
  \A j \in DOMAIN wr :
    InvalidationCompleted(wr[j]) =>
      \A k \in DOMAIN cache : ~HoldsPreWrite(cache[k], wr[j])

(* C26 amended: when the invalidation has completed, every key its lookup   *)
(* found is gone, and an entry of the user that still holds a pre-write     *)
(* payload was not found by the lookup and was stored after the write, with *)
(* at most the 300 seconds of its expiry left.                              *)
C26_OnlyLateSetsSurvive ==
  \A j \in DOMAIN wr :
    InvalidationCompleted(wr[j]) =>
      /\ \A k \in wr[j].invKeys : k \notin DOMAIN cache
      /\ \A k \in DOMAIN cache :
           HoldsPreWrite(cache[k], wr[j]) =>
             /\ cache[k].wver >= wr[j].verAfter
             /\ cache[k].ttl + cache[k].age = CACHE_TTL

C26_Witness ==
  \E j \in DOMAIN wr :
    /\ InvalidationCompleted(wr[j])
    /\ wr[j].invKeys # {}
    /\ \E k \in DOMAIN cache : HoldsPreWrite(cache[k], wr[j])

(* C28: a request whose handling is over has exactly one response, and no   *)
(* request is left in a state in which no response will come.               *)
C28_ExactlyOneResponse ==
  /\ \A i \in DOMAIN rd : Responded(rd[i]) => rd[i].responses = 1
  /\ \A j \in DOMAIN wr :
       /\ wr[j].pc # "noresp"
       /\ wr[j].pc = "done" => wr[j].responses = 1

====
